---------------------------- MODULE Spec2Model ----------------------------
(***************************************************************************)
(* MstatX: per-column conservation scores of a multiple sequence alignment. *)
(* The model follows one run of the program: the Msa constructor            *)
(* (src/src/msa.cpp) reads the alignment text and derives the column        *)
(* summaries, then one of the three statistics (wentropy.cpp, trident.cpp,  *)
(* jensen.cpp) computes the sequence weights and the column scores and      *)
(* writes them to the output file.                                          *)
(***************************************************************************)
EXTENDS Integers, Sequences, FiniteSets, TLC

(***************************************************************************)
(* Floating point values.  A float is modelled as an exact rational n/d     *)
(* (d > 0, lowest terms) or one of the IEEE specials NaN, +inf, -inf.       *)
(* Rounding is not modelled.  Every zero divisor the code can meet is +0    *)
(* (log(1), or an int 0 converted to float), so zero carries no sign.       *)
(***************************************************************************)
Abs(x) == IF x < 0 THEN -x ELSE x

RECURSIVE Gcd(_, _)
Gcd(a, b) == IF b = 0 THEN a ELSE Gcd(b, a % b)

Fin(n, d) ==
  LET g == Gcd(Abs(n), Abs(d))
      s == IF d < 0 THEN -1 ELSE 1
  IN  [k |-> "fin", n |-> s * (n \div g), d |-> s * (d \div g)]

Num(n) == [k |-> "fin", n |-> n, d |-> 1]

NaN == [k |-> "nan", n |-> 0, d |-> 1]

PInf == [k |-> "inf", n |-> 1, d |-> 1]

NInf == [k |-> "inf", n |-> -1, d |-> 1]

Zero == Num(0)

One == Num(1)

Sign(v) == IF v.n > 0 THEN 1 ELSE IF v.n < 0 THEN -1 ELSE 0

Neg(v) == IF v.k = "nan" THEN NaN ELSE [v EXCEPT !.n = -v.n]

Add(x, y) ==
  IF x.k = "nan" \/ y.k = "nan" THEN NaN
  ELSE IF x.k = "inf" /\ y.k = "inf" THEN (IF x.n = y.n THEN x ELSE NaN)
  ELSE IF x.k = "inf" THEN x
  ELSE IF y.k = "inf" THEN y
  ELSE LET g == Gcd(x.d, y.d)
       IN  Fin(x.n * (y.d \div g) + y.n * (x.d \div g), (x.d \div g) * y.d)

Sub(x, y) == Add(x, Neg(y))

Mul(x, y) ==
  IF x.k = "nan" \/ y.k = "nan" THEN NaN
  ELSE IF x.k = "inf" \/ y.k = "inf"
       THEN (IF Sign(x) * Sign(y) = 0 THEN NaN
             ELSE IF Sign(x) * Sign(y) > 0 THEN PInf ELSE NInf)
  ELSE LET g1 == Gcd(Abs(x.n), y.d)
           g2 == Gcd(Abs(y.n), x.d)
       IN  IF x.n = 0 \/ y.n = 0 THEN Zero
           ELSE Fin((x.n \div g1) * (y.n \div g2), (x.d \div g2) * (y.d \div g1))

Div(x, y) ==
  IF x.k = "nan" \/ y.k = "nan" THEN NaN
  ELSE IF x.k = "inf" /\ y.k = "inf" THEN NaN
  ELSE IF x.k = "inf" THEN (IF Sign(x) * Sign(y) < 0 THEN Neg(x) ELSE x)
  ELSE IF y.k = "inf" THEN Zero
  ELSE IF y.n = 0
       THEN (IF x.n = 0 THEN NaN ELSE IF x.n > 0 THEN PInf ELSE NInf)
  ELSE Mul(x, Fin(y.d, y.n))

\* x < y and x <= y as the float comparisons: FALSE whenever a NaN is involved
Lt(x, y) ==
  /\ x.k # "nan" /\ y.k # "nan"
  /\ IF x.k = "inf" /\ y.k = "inf" THEN x.n < y.n
     ELSE IF x.k = "inf" THEN x.n < 0
     ELSE IF y.k = "inf" THEN y.n > 0
     ELSE x.n * y.d < y.n * x.d

Le(x, y) == x.k # "nan" /\ y.k # "nan" /\ (x = y \/ Lt(x, y))

(***************************************************************************)
(* log().  LnTable[n] is the natural logarithm of n in units of 1/LogScale, *)
(* rounded; log of a rational n/d is (LnTable[n] - LnTable[d]) / LogScale.  *)
(* log(1) = 0, log(0) = -inf, log of a negative number is NaN.              *)
(***************************************************************************)
LogScale == 1000

LnTable ==
   << 
      0, 693, 1099, 1386, 1609, 1792, 1946, 2079, 2197, 2303, 2398, 2485, 2565, 2639, 2708, 2773,
      2833, 2890, 2944, 2996, 3045, 3091, 3135, 3178, 3219, 3258, 3296, 3332, 3367, 3401, 3434, 3466,
      3497, 3526, 3555, 3584, 3611, 3638, 3664, 3689, 3714, 3738, 3761, 3784, 3807, 3829, 3850, 3871,
      3892, 3912, 3932, 3951, 3970, 3989, 4007, 4025, 4043, 4060, 4078, 4094, 4111, 4127, 4143, 4159,
      4174, 4190, 4205, 4220, 4234, 4248, 4263, 4277, 4290, 4304, 4317, 4331, 4344, 4357, 4369, 4382,
      4394, 4407, 4419, 4431, 4443, 4454, 4466, 4477, 4489, 4500, 4511, 4522, 4533, 4543, 4554, 4564,
      4575, 4585, 4595, 4605, 4615, 4625, 4635, 4644, 4654, 4663, 4673, 4682, 4691, 4700, 4710, 4718,
      4727, 4736, 4745, 4754, 4762, 4771, 4779, 4787, 4796, 4804, 4812, 4820, 4828, 4836, 4844, 4852,
      4860, 4868, 4875, 4883, 4890, 4898, 4905, 4913, 4920, 4927, 4934, 4942, 4949, 4956, 4963, 4970,
      4977, 4984, 4990, 4997, 5004, 5011, 5017, 5024, 5030, 5037, 5043, 5050, 5056, 5063, 5069, 5075,
      5081, 5088, 5094, 5100, 5106, 5112, 5118, 5124, 5130, 5136, 5142, 5147, 5153, 5159, 5165, 5170,
      5176, 5182, 5187, 5193, 5198, 5204, 5209, 5215, 5220, 5226, 5231, 5236, 5242, 5247, 5252, 5257,
      5263, 5268, 5273, 5278, 5283, 5288, 5293, 5298, 5303, 5308, 5313, 5318, 5323, 5328, 5333, 5338,
      5342, 5347, 5352, 5357, 5361, 5366, 5371, 5375, 5380, 5384, 5389, 5394, 5398, 5403, 5407, 5412,
      5416, 5421, 5425, 5429, 5434, 5438, 5442, 5447, 5451, 5455, 5460, 5464, 5468, 5472, 5476, 5481,
      5485, 5489, 5493, 5497, 5501, 5505, 5509, 5513, 5517, 5521, 5525, 5529, 5533, 5537, 5541, 5545,
      5549, 5553, 5557, 5561, 5565, 5568, 5572, 5576, 5580, 5583, 5587, 5591, 5595, 5598, 5602, 5606,
      5609, 5613, 5617, 5620, 5624, 5628, 5631, 5635, 5638, 5642, 5645, 5649, 5652, 5656, 5659, 5663,
      5666, 5670, 5673, 5677, 5680, 5684, 5687, 5690, 5694, 5697, 5700, 5704, 5707, 5710, 5714, 5717,
      5720, 5724, 5727, 5730, 5733, 5737, 5740, 5743, 5746, 5749, 5753, 5756, 5759, 5762, 5765, 5768,
      5771, 5775, 5778, 5781, 5784, 5787, 5790, 5793, 5796, 5799, 5802, 5805, 5808, 5811, 5814, 5817,
      5820, 5823, 5826, 5829, 5832, 5835, 5838, 5841, 5844, 5846, 5849, 5852, 5855, 5858, 5861, 5864,
      5866, 5869, 5872, 5875, 5878, 5881, 5883, 5886, 5889, 5892, 5894, 5897, 5900, 5903, 5905, 5908,
      5911, 5914, 5916, 5919, 5922, 5924, 5927, 5930, 5932, 5935, 5938, 5940, 5943, 5945, 5948, 5951,
      5953, 5956, 5958, 5961, 5964, 5966, 5969, 5971, 5974, 5976, 5979, 5981, 5984, 5986, 5989, 5991,
      5994, 5996, 5999, 6001, 6004, 6006, 6009, 6011, 6014, 6016, 6019, 6021, 6023, 6026, 6028, 6031,
      6033, 6035, 6038, 6040, 6043, 6045, 6047, 6050, 6052, 6054, 6057, 6059, 6061, 6064, 6066, 6068,
      6071, 6073, 6075, 6078, 6080, 6082, 6084, 6087, 6089, 6091, 6094, 6096, 6098, 6100, 6103, 6105,
      6107, 6109, 6111, 6114, 6116, 6118, 6120, 6122, 6125, 6127, 6129, 6131, 6133, 6136, 6138, 6140,
      6142, 6144, 6146, 6148, 6151, 6153, 6155, 6157, 6159, 6161, 6163, 6165, 6168, 6170, 6172, 6174,
      6176, 6178, 6180, 6182, 6184, 6186, 6188, 6190, 6192, 6194, 6196, 6198, 6201, 6203, 6205, 6207,
      6209, 6211, 6213, 6215, 6217, 6219, 6221, 6223, 6225, 6227, 6229, 6230, 6232, 6234, 6236, 6238  >>

\* log(2^64 - 1): the value of log(alphabet.size() - 1) for an empty alphabet
LnSizeMax == 44361

Log(v) ==
  IF v.k = "nan" THEN NaN
  ELSE IF v.k = "inf" THEN (IF v.n > 0 THEN PInf ELSE NaN)
  ELSE IF v.n = 0 THEN NInf
  ELSE IF v.n < 0 THEN NaN
  ELSE Fin(LnTable[v.n] - LnTable[v.d], LogScale)

\* pow(x, e) for a positive integer exponent e
RECURSIVE Pow(_, _)
Pow(x, e) == IF e = 1 THEN x ELSE Mul(x, Pow(x, e - 1))


(***************************************************************************)
(* Characters are one-letter strings, a line of text is a sequence of       *)
(* characters, the input file is a sequence of lines.                       *)
(***************************************************************************)
NUL == "NUL"   \* the char '\0' that s[s.size()] reads

GapChars == {"-", " "}

toupper(c) == IF c = "a" THEN "A" ELSE IF c = "b" THEN "B" ELSE c

Range(s) == {s[i] : i \in 1..Len(s)}

\* the index (from 1) of the first occurrence of c in s, 0 when there is none
\* (std::string::find returning npos)
RECURSIVE FindFrom(_, _, _)
FindFrom(s, c, i) ==
  IF i > Len(s) THEN 0 ELSE IF s[i] = c THEN i ELSE FindFrom(s, c, i + 1)

Find(s, c) == FindFrom(s, c, 1)

\* appending, in order, every element of s that acc does not hold yet
RECURSIVE PushUnseen(_, _)
PushUnseen(s, acc) ==
  IF s = <<>> THEN acc
  ELSE PushUnseen(Tail(s), IF Find(acc, Head(s)) = 0 THEN Append(acc, Head(s)) ELSE acc)

RECURSIVE Concat(_)
Concat(ss) == IF ss = <<>> THEN <<>> ELSE Head(ss) \o Concat(Tail(ss))

RECURSIVE SumSeq(_)
SumSeq(s) == IF s = <<>> THEN Zero ELSE Add(Head(s), SumSeq(Tail(s)))

\* the name of a header line s: s.substr(1, s.find_first_of(' ') - 1)
HeaderName(s) ==
  LET sp == Find(s, " ")
  IN  IF sp = 0 THEN SubSeq(s, 2, Len(s)) ELSE SubSeq(s, 2, sp - 1)

(***************************************************************************)
(* The column summaries of Msa, as functions of the stored rows seqs, the   *)
(* row count ns and the column count nc.  Columns and rows count from 1.    *)
(***************************************************************************)
getCol(seqs, ns, x) == [row \in 1..ns |-> seqs[row][x]]

defineAlphabet(seqs, ns, nc) ==
  PushUnseen(Concat([x \in 1..nc |-> getCol(seqs, ns, x)]), <<>>)

countGap(seqs, ns, nc) ==
  [x \in 1..nc |-> Cardinality({row \in 1..ns : seqs[row][x] \in GapChars})]

countType(seqs, ns, nc) ==
  [x \in 1..nc |-> PushUnseen(getCol(seqs, ns, x), <<>>)]

\* the number of cells of the whole alignment that hold symbol c
CountSym(seqs, ns, nc, c) ==
  Cardinality({cell \in (1..ns) \X (1..nc) : seqs[cell[1]][cell[2]] = c})

countFreq(seqs, ns, nc, alph) ==
  LET total == Cardinality({cell \in (1..ns) \X (1..nc) :
                              seqs[cell[1]][cell[2]] \notin GapChars})
  IN  [i \in 1..Len(alph) |-> Div(Num(CountSym(seqs, ns, nc, alph[i])), Num(total))]

\* log(alphabet.size() - 1): the subtraction is unsigned
EntropyNormalizer(alph) ==
  IF Len(alph) = 0 THEN Fin(LnSizeMax, LogScale) ELSE Log(Num(Len(alph) - 1))

\* the loop of countEntropy over the alphabet for column x, from index i on,
\* acc being entropy[col] so far
RECURSIVE EntropyLoop(_, _, _, _, _, _)
EntropyLoop(seqs, ns, alph, x, i, acc) ==
  IF i > Len(alph) THEN acc
  ELSE LET cnt   == Cardinality({row \in 1..ns : seqs[row][x] = alph[i]})
           lfreq == Div(Num(cnt), Num(ns))
           nxt   == IF Lt(Zero, lfreq)
                    THEN (IF lfreq = One
                          THEN acc    \* "entropy[col] == 0.0;" compares, assigns nothing
                          ELSE Sub(acc, Mul(lfreq, Log(lfreq))))
                    ELSE acc
       IN  EntropyLoop(seqs, ns, alph, x, i + 1, nxt)

countEntropy(seqs, ns, nc, alph) ==
  [x \in 1..nc |-> Div(EntropyLoop(seqs, ns, alph, x, 1, Zero), EntropyNormalizer(alph))]


(***************************************************************************)
(* The statistics: sequence weights and column scores.                      *)
(***************************************************************************)
MIN(x, y) == IF x < y THEN x ELSE y

\* calcSeqWeight with the inner loop stopping at row i: n counts only the
\* rows up to i
calcSeqWeight_UpToRow(seqs, ns, nc, ntype, i) ==
  LET n(x) == Cardinality({seq \in 1..i : seqs[i][x] = seqs[seq][x]})
      w    == SumSeq([x \in 1..nc |-> Div(One, Num(n(x) * ntype[x]))])
  IN  Div(w, Num(nc))

\* calcSeqWeight(msa, i); ntype[x] is msa.getNtype(x)
calcSeqWeight(seqs, ns, nc, ntype, i) ==
  LET n(x) == Cardinality({seq \in 1..ns : seqs[i][x] = seqs[seq][x]})
      w    == SumSeq([x \in 1..nc |-> Div(One, Num(n(x) * ntype[x]))])
  IN  Div(w, Num(nc))

\* lambda = 1.0 / log(MIN(alphabet.size(), nseq))
Lambda(alph, ns) == Div(One, Log(Num(MIN(Len(alph), ns))))

\* proba[x][a] after the loop over the sequences: the weights of the rows
\* that carry alphabet[a] in column x, added in row order
ColProba(seqs, ns, alph, w, x) ==
  [a \in 1..Len(alph) |->
     SumSeq([j \in 1..ns |-> IF seqs[j][x] = alph[a] THEN w[j] ELSE Zero])]

\* col_cons[x] (and t[x]) before it is scaled: minus the sum of p log p over
\* the entries of p that differ from 0.0, taken in alphabet order
RECURSIVE EntropyTerms(_, _, _)
EntropyTerms(p, a, acc) ==
  IF a > Len(p) THEN acc
  ELSE EntropyTerms(p, a + 1,
                    IF p[a] # Zero THEN Sub(acc, Mul(p[a], Log(p[a]))) ELSE acc)

WeightedEntropy(seqs, ns, alph, w, x) ==
  Mul(EntropyTerms(ColProba(seqs, ns, alph, w, x), 1, Zero), Lambda(alph, ns))

\* the written value without its gap factor
WEntScore_NoGapFactor(cons, gap, ns) == Sub(One, cons)

\* the value WEntStat writes for a column
WEntScore(cons, gap, ns) ==
  Mul(Sub(One, cons), Sub(One, Div(Num(gap), Num(ns))))

\* pow(10.0, -6.0)
PseudoCount == Fin(1, 1000000)

\* the pseudo-count step without its second loop: nothing is taken off the
\* probabilities of the symbols that are present
JensenProba_NoReduction(seqs, ns, alph, w, x) ==
  LET p == ColProba(seqs, ns, alph, w, x)
  IN  [a \in 1..Len(alph) |-> IF p[a] = Zero THEN PseudoCount ELSE p[a]]

\* proba[x] of JensenStat after the pseudo-count step
JensenProba(seqs, ns, alph, w, x) ==
  LET p       == ColProba(seqs, ns, alph, w, x)
      nb_abs  == Cardinality({a \in 1..Len(alph) : p[a] = Zero})
      q       == [a \in 1..Len(alph) |-> IF p[a] = Zero THEN PseudoCount ELSE p[a]]
      pseudo_counts == Div(Mul(Num(nb_abs), PseudoCount), Num(Len(alph) - nb_abs))
  IN  [a \in 1..Len(alph) |->
         IF Lt(PseudoCount, q[a]) THEN Sub(q[a], pseudo_counts) ELSE q[a]]

\* type_list and ntype of TridStat for one column once '-' is erased
TridentTypes(type_list) ==
  LET pos == Find(type_list, "-")
  IN  IF pos # 0
      THEN SubSeq(type_list, 1, pos - 1) \o SubSeq(type_list, pos + 1, Len(type_list))
      ELSE type_list

TridentNtype(ntype, type_list) ==
  IF Find(type_list, "-") # 0 THEN ntype - 1 ELSE ntype

\* the value TridStat writes for a column
TridentScore(tx, rx, gx, f) ==
  Mul(Mul(Pow(Sub(One, tx), f[1]), Pow(Sub(One, rx), f[2])), Pow(Sub(One, gx), f[3]))


(***************************************************************************)
(* Bounds of the model and the inputs of a run.                             *)
(***************************************************************************)
\* the cap on the records Msa retains (500 in the source), scaled down
nb_seq_limits == 3

MaxSeq == 3      \* rows of the well-formed alignments

MaxCol == 2      \* columns of the well-formed alignments

MaxCells == 6    \* cells (rows times columns) of the well-formed alignments

MaxLines == 5    \* lines of the free-form input texts

ResChars == {"A", "B", "-"}

Alignments ==
  UNION {[1..sh[1] -> [1..sh[2] -> ResChars]] :
           sh \in {c \in (1..MaxSeq) \X (1..MaxCol) : c[1] * c[2] <= MaxCells}}

\* an alignment written as text: a header line, then the residues, per row
Render(al) == Concat([i \in 1..(2 * Len(al)) |->
                        IF i % 2 = 1 THEN << <<">", "s">> >> ELSE << al[i \div 2] >>])

LineShapes == { <<">", "a">>, <<">", "b", " ", "x">>, <<"A">>, <<"a", "-">> }

Texts ==
  {Render(al) : al \in Alignments}
    \cup UNION {[1..n -> LineShapes] : n \in 0..MaxLines}

Statistics == {"wentropy", "trident", "jensen"}

\* Options factor_a, factor_b, factor_c (positive); a and c stay 1 so that the
\* exact powers stay within 32-bit integers
FactorChoices == { <<1, 1, 1>>, <<1, 2, 1>> }

\* what a read past the end of a row may return
UBChars == {"A", "-", NUL}

\* r(x) of a column with two or more types: decided by the scoring matrix
RValues == {Fin(1, 2), One}

\* the alphabet of the scoring matrix
sm_alphabet == <<"A", "B">>

VARIABLES
  input,        \* the lines of the alignment file
  pc,           \* where the run stands
  line,         \* lines read so far
  file,         \* the input stream: "closed", "good", "eof" or "failed" (no open)
  ragged,       \* the rows that were read do not all hold ncol residues
  mali_name, mali_seq, tmp_seq,
  nseq, ncol,
  alphabet, gap_counts, aa_freq, aa_type_list, nb_type, entropy,
  statistic,    \* the statistic the options select
  seq_weight, proba, col_cons, t, r, g,
  factor,       \* <<factor_a, factor_b, factor_c>>
  output,       \* the output stream: "closed", "open", "failed" (no open) or "done"
  out           \* the values written to the output file, in order

msaVars == <<mali_name, mali_seq, tmp_seq, nseq, ncol, ragged,
             alphabet, gap_counts, aa_freq, aa_type_list, nb_type, entropy>>

statVars == <<statistic, seq_weight, proba, col_cons, t, r, g, factor, output, out>>

vars == <<input, pc, line, file, msaVars, statVars>>

Init ==
  /\ input \in Texts
  /\ pc = "open_input"
  /\ line = 0
  /\ file = "closed"
  /\ ragged = FALSE
  /\ mali_name = <<>> /\ mali_seq = <<>> /\ tmp_seq = <<>>
  /\ nseq = 0 /\ ncol = 0
  /\ alphabet = <<>> /\ gap_counts = <<>> /\ aa_freq = <<>>
  /\ aa_type_list = <<>> /\ nb_type = <<>> /\ entropy = <<>>
  /\ statistic = "none"
  /\ seq_weight = <<>> /\ proba = <<>> /\ col_cons = <<>>
  /\ t = <<>> /\ r = <<>> /\ g = <<>>
  /\ factor = <<1, 1, 1>>
  /\ output = "closed"
  /\ out = <<>>

(***************************************************************************)
(* Msa::Msa                                                                 *)
(***************************************************************************)
\* ifstream file(fname): the file opens
OpenInput ==
  /\ pc = "open_input"
  /\ pc' = "read"
  /\ file' = "good"
  /\ UNCHANGED <<input, line, msaVars, statVars>>

\* the file does not open: "Cannot open file", exit(0)
OpenInputFail ==
  /\ pc = "open_input"
  /\ file' = "failed"
  /\ pc' = "exit"
  /\ UNCHANGED <<input, line, msaVars, statVars>>

\* one turn of the reading loop: getline, then the header or residue branch.
\* Past the last line getline yields the empty string and the stream fails.
ReadLine ==
  /\ pc = "read"
  /\ file = "good" /\ Len(mali_seq) < nb_seq_limits
  /\ LET eof == line >= Len(input)
         s   == IF eof THEN <<>> ELSE input[line + 1]
     IN  /\ line' = IF eof THEN line ELSE line + 1
         /\ file' = IF eof THEN "eof" ELSE "good"
         /\ IF s # <<>> /\ s[1] = ">"
            THEN LET pushed == IF Len(mali_name) # 0
                               THEN Append(mali_seq, tmp_seq) ELSE mali_seq
                 IN  /\ mali_seq' = pushed
                     /\ mali_name' = IF Len(pushed) < nb_seq_limits
                                     THEN Append(mali_name, HeaderName(s))
                                     ELSE mali_name
                     /\ tmp_seq' = <<>>
            ELSE /\ tmp_seq' = tmp_seq \o s
                 /\ UNCHANGED <<mali_name, mali_seq>>
  /\ UNCHANGED <<input, pc, nseq, ncol, ragged, alphabet, gap_counts, aa_freq,
                 aa_type_list, nb_type, entropy, statVars>>

\* after the loop: the last record is stored, nseq and ncol are set
EndRead ==
  /\ pc = "read"
  /\ ~(file = "good" /\ Len(mali_seq) < nb_seq_limits)
  /\ LET seqs == IF Len(mali_seq) < nb_seq_limits
                 THEN Append(mali_seq, tmp_seq) ELSE mali_seq
     IN  /\ mali_seq' = seqs
         /\ nseq' = Len(mali_name)
         /\ ncol' = Len(seqs[1])
  /\ pc' = "parsed"
  /\ UNCHANGED <<input, line, file, mali_name, tmp_seq, ragged, alphabet, gap_counts,
                 aa_freq, aa_type_list, nb_type, entropy, statVars>>

\* a row has a cell, among the first ncol, two or more places past its end
Overrun == \E i \in 1..nseq : ncol > Len(mali_seq[i]) + 1

\* the rows as the upper-casing loop leaves them; a cell one past the end of
\* a row reads '\0', a cell further out reads fill
Uppercased(fill) ==
  [i \in 1..Len(mali_seq) |->
     IF i > nseq THEN mali_seq[i]
     ELSE [j \in 1..(IF Len(mali_seq[i]) > ncol THEN Len(mali_seq[i]) ELSE ncol) |->
             IF j > Len(mali_seq[i]) + 1 THEN fill
             ELSE IF j = Len(mali_seq[i]) + 1 THEN NUL
             ELSE IF j <= ncol THEN toupper(mali_seq[i][j])
             ELSE mali_seq[i][j]]]

\* "Change all mali.seq in upper case".  Indexing a row two or more places
\* past its end is undefined: the run crashes or goes on with what it read.
UpperCase ==
  /\ pc = "parsed"
  /\ ragged' = \E i \in 1..nseq : Len(mali_seq[i]) # ncol
  /\ IF Overrun
     THEN \/ pc' = "crash" /\ UNCHANGED mali_seq
          \/ \E fill \in UBChars : mali_seq' = Uppercased(fill) /\ pc' = "upper"
     ELSE mali_seq' = Uppercased(NUL) /\ pc' = "upper"
  /\ UNCHANGED <<input, line, file, mali_name, tmp_seq, nseq, ncol, alphabet,
                 gap_counts, aa_freq, aa_type_list, nb_type, entropy, statVars>>

\* defineAlphabet(); countGap(); countFreq(); countType(); countEntropy();
Analyse ==
  /\ pc = "upper"
  /\ LET alph == defineAlphabet(mali_seq, nseq, ncol)
     IN  /\ alphabet' = alph
         /\ gap_counts' = countGap(mali_seq, nseq, ncol)
         /\ aa_freq' = countFreq(mali_seq, nseq, ncol, alph)
         /\ aa_type_list' = countType(mali_seq, nseq, ncol)
         /\ nb_type' = [x \in 1..ncol |-> Len(countType(mali_seq, nseq, ncol)[x])]
         /\ entropy' = countEntropy(mali_seq, nseq, ncol, alph)
  /\ pc' = "built"
  /\ UNCHANGED <<input, line, file, mali_name, mali_seq, tmp_seq, nseq, ncol, ragged,
                 statVars>>


(***************************************************************************)
(* The run of one statistic on the alignment that was built.                *)
(***************************************************************************)
\* the options select the statistic whose calculateStatistic(msa) runs
ChooseStatistic ==
  /\ pc = "built"
  /\ \E st \in Statistics : statistic' = st
  /\ pc' = "weights"
  /\ UNCHANGED <<input, line, file, msaVars,
                 seq_weight, proba, col_cons, t, r, g, factor, output, out>>

\* "Calculate Sequence Weights": the same loop in the three statistics
CalcWeights ==
  /\ pc = "weights"
  /\ seq_weight' = [i \in 1..nseq |-> calcSeqWeight(mali_seq, nseq, ncol, nb_type, i)]
  /\ pc' = CASE statistic = "wentropy" -> "wentropy_columns"
             [] statistic = "trident"  -> "trident_t"
             [] statistic = "jensen"   -> "jensen_columns"
  /\ UNCHANGED <<input, line, file, msaVars,
                 statistic, proba, col_cons, t, r, g, factor, output, out>>

\* WEntStat: "Calculate aa proba and conservation score by columns"
WEntColumns ==
  /\ pc = "wentropy_columns"
  /\ proba' = [x \in 1..ncol |-> ColProba(mali_seq, nseq, alphabet, seq_weight, x)]
  /\ col_cons' = [x \in 1..ncol |->
                    WeightedEntropy(mali_seq, nseq, alphabet, seq_weight, x)]
  /\ pc' = "open_output"
  /\ UNCHANGED <<input, line, file, msaVars,
                 statistic, seq_weight, t, r, g, factor, output, out>>

\* JensenStat: the probabilities with their pseudo counts, the empty score
\* loop, the banner and the return that precedes the output code
JensenColumns ==
  /\ pc = "jensen_columns"
  /\ proba' = [x \in 1..ncol |-> JensenProba(mali_seq, nseq, alphabet, seq_weight, x)]
  /\ pc' = "done"
  /\ UNCHANGED <<input, line, file, msaVars,
                 statistic, seq_weight, col_cons, t, r, g, factor, output, out>>

\* TridStat: t(x), from the alignment as the constructor left it
TridentT ==
  /\ pc = "trident_t"
  /\ t' = [x \in 1..ncol |-> WeightedEntropy(mali_seq, nseq, alphabet, seq_weight, x)]
  /\ pc' = "matrix"
  /\ UNCHANGED <<input, line, file, msaVars,
                 statistic, seq_weight, proba, col_cons, r, g, factor, output, out>>

\* ScoringMatrix score_mat(...): the matrix file is read
LoadMatrix ==
  /\ pc = "matrix"
  /\ pc' = "fit"
  /\ UNCHANGED <<input, line, file, msaVars, statVars>>

\* the matrix file does not open: the run ends
LoadMatrixFail ==
  /\ pc = "matrix"
  /\ pc' = "exit"
  /\ UNCHANGED <<input, line, file, msaVars, statVars>>

\* the rows of msa.fitToAlphabet(alph): a symbol outside alph becomes a gap
Fitted(seqs, ns, nc, alph) ==
  [i \in 1..Len(seqs) |->
     IF i > ns THEN seqs[i]
     ELSE [j \in 1..Len(seqs[i]) |->
             IF j <= nc /\ Find(alph, seqs[i][j]) = 0 THEN "-" ELSE seqs[i][j]]]

\* msa.fitToAlphabet(sm_alphabet): the alphabet, the gap counts and the type
\* lists are derived again from the fitted rows
FitToAlphabet ==
  /\ pc = "fit"
  /\ LET seqs == Fitted(mali_seq, nseq, ncol, sm_alphabet)
     IN  /\ mali_seq' = seqs
         /\ alphabet' = defineAlphabet(seqs, nseq, ncol)
         /\ gap_counts' = countGap(seqs, nseq, ncol)
         /\ aa_type_list' = countType(seqs, nseq, ncol)
         /\ nb_type' = [x \in 1..ncol |-> Len(countType(seqs, nseq, ncol)[x])]
  /\ pc' = "trident_r"
  /\ UNCHANGED <<input, line, file, mali_name, tmp_seq, nseq, ncol, ragged, aa_freq,
                 entropy, statVars>>

\* the values r(x) can take for a column of ntype types: 1.0 when none is
\* left once '-' is erased; one type alone is its own mean vector, which gives
\* 0; with more types the value is what the matrix makes it
RChoices(ntype) ==
  IF ntype = 0 THEN {One} ELSE IF ntype = 1 THEN {Zero} ELSE RValues

\* the r(x) loop placed ahead of msa.fitToAlphabet: the columns are queried
\* for their types before the rows are fitted to the matrix alphabet
TridentR_BeforeFit ==
  /\ pc = "fit"
  /\ Len(r) < ncol
  /\ LET x     == Len(r) + 1
         ntype == TridentNtype(nb_type[x], aa_type_list[x])
     IN  \E rv \in RChoices(ntype) : r' = Append(r, rv)
  /\ UNCHANGED <<input, pc, line, file, msaVars,
                 statistic, seq_weight, proba, col_cons, t, g, factor, output, out>>

\* r(x) for the next column
TridentR ==
  /\ pc = "trident_r"
  /\ Len(r) < ncol
  /\ LET x     == Len(r) + 1
         ntype == TridentNtype(nb_type[x], aa_type_list[x])
     IN  \E rv \in RChoices(ntype) : r' = Append(r, rv)
  /\ UNCHANGED <<input, pc, line, file, msaVars,
                 statistic, seq_weight, proba, col_cons, t, g, factor, output, out>>

\* g(x) = nb_gap / nb_seq, then the banner that prints the three factors
TridentG ==
  /\ pc = "trident_r"
  /\ Len(r) = ncol
  /\ g' = [x \in 1..ncol |-> Div(Num(gap_counts[x]), Num(nseq))]
  /\ \E f \in FactorChoices : factor' = f
  /\ pc' = "open_output"
  /\ UNCHANGED <<input, line, file, msaVars,
                 statistic, seq_weight, proba, col_cons, t, r, output, out>>

\* ofstream file(output_name): the file opens
OpenOutput ==
  /\ pc = "open_output"
  /\ output' = "open"
  /\ pc' = "write"
  /\ UNCHANGED <<input, line, file, msaVars,
                 statistic, seq_weight, proba, col_cons, t, r, g, factor, out>>

\* the failed open without its exit(0): the run goes on to the output loop
OpenOutputFail_NoExit ==
  /\ pc = "open_output"
  /\ output' = "failed"
  /\ pc' = "write"
  /\ UNCHANGED <<input, line, file, msaVars,
                 statistic, seq_weight, proba, col_cons, t, r, g, factor, out>>

\* the output file does not open: "Cannot open file", exit(0)
OpenOutputFail ==
  /\ pc = "open_output"
  /\ output' = "failed"
  /\ pc' = "exit"
  /\ UNCHANGED <<input, line, file, msaVars,
                 statistic, seq_weight, proba, col_cons, t, r, g, factor, out>>

\* the value of the output loop for column x
ScoreOf(x) ==
  IF statistic = "wentropy"
  THEN WEntScore(col_cons[x], gap_counts[x], nseq)
  ELSE TridentScore(t[x], r[x], g[x], factor)

\* one turn of the output loop: the score of the next column is written
WriteScore ==
  /\ pc = "write"
  /\ Len(out) < ncol
  /\ out' = Append(out, ScoreOf(Len(out) + 1))
  /\ UNCHANGED <<input, pc, line, file, msaVars,
                 statistic, seq_weight, proba, col_cons, t, r, g, factor, output>>

\* the output loop is over: the file is closed and the statistic returns
Finish ==
  /\ pc = "write"
  /\ Len(out) = ncol
  /\ output' = "done"
  /\ pc' = "done"
  /\ UNCHANGED <<input, line, file, msaVars,
                 statistic, seq_weight, proba, col_cons, t, r, g, factor, out>>

Next ==
  \/ OpenInput \/ OpenInputFail \/ ReadLine \/ EndRead \/ UpperCase \/ Analyse
  \/ ChooseStatistic \/ CalcWeights
  \/ WEntColumns \/ JensenColumns
  \/ TridentT \/ LoadMatrix \/ LoadMatrixFail \/ FitToAlphabet
  \/ TridentR \/ TridentG
  \/ OpenOutput \/ OpenOutputFail \/ WriteScore \/ Finish

Spec == Init /\ [][Next]_vars


(***************************************************************************)
(* Properties.                                                              *)
(***************************************************************************)
\* the sum of f[e] over the elements e of the finite set S
RECURSIVE SetSum(_, _)
SetSum(S, f) ==
  IF S = {} THEN Zero
  ELSE LET e == CHOOSE e \in S : TRUE IN Add(f[e], SetSum(S \ {e}, f))

\* the alignment satisfies the invariants of the data model: at least one row
\* and one column, every row of ncol residues
Regular == ~ragged /\ nseq >= 1 /\ ncol >= 1

\* C1.  The stated value for column x of the weighted entropy score:
\* (1 - H(x)) * (1 - gapCount(x)/nseq), H(x) = -lambda * sum of p_a log p_a
\* over the alphabet symbols with p_a # 0, p_a the weight of the rows that
\* carry a in column x, lambda = 1/log(min(|alphabet|, nseq)).
C1_p(x, a) ==
  SetSum({j \in 1..nseq : mali_seq[j][x] = a}, seq_weight)

C1_H(x) ==
  LET PLogP == [a \in Range(alphabet) |-> Mul(C1_p(x, a), Log(C1_p(x, a)))]
      lambda   == Div(One, Log(Num(IF Len(alphabet) < nseq THEN Len(alphabet) ELSE nseq)))
  IN  Mul(Neg(lambda), SetSum({a \in Range(alphabet) : C1_p(x, a) # Zero}, PLogP))

C1_Value(x) ==
  LET gapCount == Cardinality({j \in 1..nseq : mali_seq[j][x] \in {"-", " "}})
  IN  Mul(Sub(One, C1_H(x)), Sub(One, Fin(gapCount, nseq)))

\* C1: a weighted entropy run that opened its output writes the columns in
\* ascending order, each with the stated value, and ends with exactly ncol
\* values written.
C1_WEntWritesStatedValues ==
  (statistic = "wentropy" /\ pc \in {"write", "done"} /\ Regular) =>
    /\ Len(out) <= ncol
    /\ pc = "done" => Len(out) = ncol
    /\ \A x \in 1..Len(out) : out[x] = C1_Value(x)

C1_Witness ==
  /\ statistic = "wentropy" /\ pc = "done" /\ Regular
  /\ nseq = 3 /\ ncol = 2 /\ Len(out) = 2
  /\ gap_counts[2] = 1
  /\ Lt(Zero, out[2]) /\ Lt(out[2], out[1]) /\ Lt(out[1], One)

\* C2: a Jensen run that ends has written one score per column.
C2_JensenWritesEveryColumn ==
  (statistic = "jensen" /\ pc = "done" /\ Regular) => Len(out) = ncol

\* C3: in a Trident run on an alignment with at least one row and one column,
\* every column left without a type once '-' is erased has r(x) = 1.0 and is
\* written with score 0.
C3_GapColumnScoresZero ==
  (statistic = "trident" /\ pc \in {"write", "done"} /\ Regular) =>
    \A x \in 1..Len(out) :
      TridentNtype(nb_type[x], aa_type_list[x]) = 0 => (r[x] = One /\ out[x] = Zero)

\* the header lines of the input, and the k-th record that starts at one
C4_Headers == {i \in 1..Len(input) : input[i] # <<>> /\ input[i][1] = ">"}

C4_HeaderAt(k) ==
  CHOOSE i \in C4_Headers : Cardinality({j \in C4_Headers : j < i}) = k - 1

C4_Residues(k) ==
  LET from == C4_HeaderAt(k) + 1
      upto == IF k < Cardinality(C4_Headers) THEN C4_HeaderAt(k + 1) - 1 ELSE Len(input)
  IN  Concat([i \in 1..(upto - from + 1) |-> input[from + i - 1]])

\* C4: once the text is parsed there are as many names as sequences, at most
\* the cap, and they are the first records of the input, each name with its
\* own residues.
C4_NamesMatchSequences ==
  pc = "parsed" =>
    /\ Len(mali_name) = Len(mali_seq)
    /\ Len(mali_name) <= nb_seq_limits
    /\ Len(mali_name) = MIN(Cardinality(C4_Headers), nb_seq_limits)
    /\ \A k \in 1..Len(mali_name) :
         /\ mali_name[k] = HeaderName(input[C4_HeaderAt(k)])
         /\ k <= Len(mali_seq) => mali_seq[k] = C4_Residues(k)

\* C5: the alignment the constructor has read has at least one row and one
\* column, and every row has exactly ncol residues.
C5_ModelInvariants ==
  pc = "parsed" =>
    /\ nseq >= 1
    /\ ncol >= 1
    /\ \A i \in 1..nseq : Len(mali_seq[i]) = ncol

\* the sequence weights are those of the rows as they stand
C6_Weighted ==
  /\ Len(seq_weight) = nseq
  /\ pc \in {"wentropy_columns", "jensen_columns", "trident_t", "matrix", "fit",
             "open_output", "write", "done"}
  /\ statistic = "trident" => pc \in {"trident_t", "matrix", "fit"}

\* w_i = (1/L) * sum over the columns x of 1/(k_x * n_{x,i})
C6_Formula(i) ==
  LET k(x)    == Cardinality({mali_seq[j][x] : j \in 1..nseq})
      n(x)    == Cardinality({j \in 1..nseq : mali_seq[j][x] = mali_seq[i][x]})
      Term    == [x \in 1..ncol |-> Fin(1, k(x) * n(x))]
  IN  Div(SetSum(1..ncol, Term), Num(ncol))

\* the weight calcSeqWeight gives row i of the alignment whose rows are those
\* of this one in the order perm
C6_PermutedWeight(perm, i) ==
  LET rows == [j \in 1..nseq |-> mali_seq[perm[j]]]
      nt   == [x \in 1..ncol |-> Len(countType(rows, nseq, ncol)[x])]
  IN  calcSeqWeight(rows, nseq, ncol, nt, i)

\* C6: every sequence weight is the stated sum, is strictly positive, and
\* follows its row under every permutation of the rows.
C6_WeightsPositiveAndRowwise ==
  (C6_Weighted /\ Regular) =>
    /\ \A i \in 1..nseq : seq_weight[i] = C6_Formula(i) /\ Lt(Zero, seq_weight[i])
    /\ \A perm \in Permutations(1..nseq) :
         \A i \in 1..nseq : C6_PermutedWeight(perm, i) = seq_weight[perm[i]]

C6_Witness ==
  /\ C6_Weighted /\ Regular
  /\ nseq = 3 /\ ncol = 2
  /\ Lt(seq_weight[2], seq_weight[1]) /\ Lt(seq_weight[2], seq_weight[3])

\* C7: a column without gaps that holds one symbol has entropy exactly 0.
C7_SingleSymbolColumnHasZeroEntropy ==
  (pc = "built" /\ Regular) =>
    \A x \in 1..ncol :
      (gap_counts[x] = 0 /\ nb_type[x] = 1) => entropy[x] = Zero

\* every symbol of the alphabet occurs in column x, all equally often
C8_Uniform(x) ==
  \A a, b \in Range(alphabet) :
    Cardinality({j \in 1..nseq : mali_seq[j][x] = a})
      = Cardinality({j \in 1..nseq : mali_seq[j][x] = b})

\* C8: with an alphabet of two or more symbols, a column in which all of them
\* occur equally often has entropy 1.
C8_UniformColumnHasEntropyOne ==
  (pc = "built" /\ Regular /\ Len(alphabet) >= 2) =>
    \A x \in 1..ncol : C8_Uniform(x) => entropy[x] = One

\* C9: in a weighted entropy run lambda has a non-zero denominator, every
\* H(x) lies in [0, 1] and so does every score written.
C9_WEntScoresBounded ==
  (statistic = "wentropy" /\ pc \in {"write", "done"} /\ Regular) =>
    /\ Log(Num(MIN(Len(alphabet), nseq))) # Zero
    /\ \A x \in 1..ncol : Le(Zero, col_cons[x]) /\ Le(col_cons[x], One)
    /\ \A x \in 1..Len(out) : Le(Zero, out[x]) /\ Le(out[x], One)

\* C10: a failed open ends the run at once: nothing of the alignment has been
\* summarised when the input does not open, no score has been written when
\* the output does not open, and no step follows the failure.
C10_FailedOpenIsFatal ==
  /\ [](file = "failed" =>
          /\ pc = "exit"
          /\ mali_seq = <<>> /\ alphabet = <<>> /\ gap_counts = <<>> /\ aa_freq = <<>>
          /\ aa_type_list = <<>> /\ nb_type = <<>> /\ entropy = <<>>
          /\ out = <<>>)
  /\ [](output = "failed" => (pc = "exit" /\ out = <<>>))
  /\ [][(file = "failed" \/ output = "failed") => UNCHANGED vars]_vars

C10_Witness ==
  /\ output = "failed" /\ pc = "exit" /\ Regular
  /\ statistic \in {"wentropy", "trident"}
  /\ ncol = 2 /\ (Len(col_cons) = ncol \/ Len(t) = ncol)


\* the symbols of the alphabet that no row carries in column x
C11_Absent(x) ==
  {a \in 1..Len(alphabet) : \A j \in 1..nseq : mali_seq[j][x] # alphabet[a]}

C12_Order ==
  [p \in {"weights", "trident_t", "matrix", "fit", "trident_r", "open_output",
          "write", "done", "exit"} |->
     CASE p = "weights"     -> 1
       [] p = "trident_t"   -> 2
       [] p = "matrix"      -> 3
       [] p = "fit"         -> 4
       [] p = "trident_r"   -> 5
       [] p = "open_output" -> 6
       [] p = "write"       -> 7
       [] p = "done"        -> 8
       [] p = "exit"        -> 9]

\* the positions that follow the return of fitToAlphabet
C12_AfterFit == {"trident_r", "open_output", "write", "done"}

C12_Step ==
  statistic = "trident" =>
    \* the run only moves forward through its positions
    /\ pc' # pc => C12_Order[pc] < C12_Order[pc']
    \* the model changes in one step only, the call of fitToAlphabet, which
    \* finds every weight and every t(x) computed and no r(x) yet
    /\ (msaVars' # msaVars \/ pc = "fit") =>
         /\ pc = "fit" /\ pc' = "trident_r"
         /\ Len(seq_weight) = nseq /\ Len(t) = ncol /\ r = <<>>
         /\ mali_seq' = Fitted(mali_seq, nseq, ncol, sm_alphabet)
         /\ UNCHANGED <<seq_weight, t, r>>
    \* the weights and the t(x) are computed before the call, from the
    \* model as parsed
    /\ seq_weight' # seq_weight =>
         /\ pc = "weights" /\ pc' = "trident_t"
         /\ Regular => seq_weight' = [i \in 1..nseq |-> C6_Formula(i)]
    /\ t' # t =>
         /\ pc = "trident_t" /\ pc' = "matrix"
         /\ Regular => t' = [x \in 1..ncol |-> C1_H(x)]
    \* r(x) is computed after the call only, from the types of the fitted
    \* model
    /\ r' # r =>
         /\ pc = "trident_r"
         /\ mali_seq = Fitted(mali_seq, nseq, ncol, sm_alphabet)
         /\ nb_type = [x \in 1..ncol |-> Len(countType(mali_seq, nseq, ncol)[x])]
         /\ aa_type_list = countType(mali_seq, nseq, ncol)
         /\ \E rv \in {Zero, One} \cup RValues : r' = Append(r, rv)
    \* nothing changes the model once the call has returned
    /\ pc \in C12_AfterFit => msaVars' = msaVars

\* C12: in a Trident run the positions are passed in the order of the code;
\* the model is changed by one step only, the fitToAlphabet(sm_alphabet)
\* call, taken once; every weight and every t(x) is computed before that call
\* from the model as parsed; r(x) is computed only after it, from the fitted
\* model; and the model does not change afterwards.
C12_FitOnceBetweenTAndR == [][C12_Step]_vars

C12_Witness ==
  /\ statistic = "trident" /\ pc = "done"
  /\ nseq = 3 /\ ncol = 2 /\ Regular
  /\ Len(seq_weight) = 3 /\ Len(t) = 2 /\ Len(r) = 2 /\ Len(out) = 2
  /\ r[1] # r[2] /\ t[1] # t[2]
  /\ \E i \in 1..3 : mali_seq[i][1] = "-"

=============================================================================
